---- MODULE Spec2Model ----
(***************************************************************************)
(* Model of the accent-recognition session store (class AppStore, the      *)
(* MobX variant of the UI, which is the richest of the four variants):     *)
(* recording, file upload, per-chunk re-recording and synthesis, with      *)
(* every asynchronous handler split at its awaits.                         *)
(*                                                                         *)
(* Conventions: a nullable string field holds "null" for null; a nullable  *)
(* object reference (mediaRecorder, audioStream) holds 0 for null and the  *)
(* number of the capture otherwise; chunk indices are 1-based, so the      *)
(* nullable index chunkBeingRecorded holds 0 for null.                     *)
(***************************************************************************)
EXTENDS Naturals, Sequences, FiniteSets, Bags, TLC

\* ---------------------------------------------------------------- bounds

\* Captures (getUserMedia calls) issued in one behaviour.
MaxCaps == 2

\* Asynchronous operations (captures, uploads, syntheses) outstanding at
\* once.
MaxOps == 2

\* Object URLs of full audio counted: MaxUrls stands for MaxUrls or more.
MaxUrls == 2

\* ------------------------------------------------------------------ data

\* ChunkData values the prediction service may return: probabilities are
\* kept as percentages.
ChunkA == [start |-> 0, end |-> 1, text |-> "hi",
           prediction |-> [british |-> 90, us |-> 10]]

ChunkB == [start |-> 1, end |-> 2, text |-> "",
           prediction |-> [british |-> 40, us |-> 60]]

\* What reading a missing array element (or data.chunks[0] of an empty
\* response) yields.
Undefined == [undefined |-> TRUE]

\* The option values of the accent <select>.
Accents == {"british", "us"}

\* data.chunks of a successful prediction response: no chunk, one chunk
\* whose text is empty, and a transcript of two chunks.
Resps == {<<>>, <<ChunkB>>, <<ChunkA, ChunkB>>}

\* How a fetch ends: "ok", or one of the ways into the catch block (fetch
\* rejects, !response.ok, or response.json() / response.blob() rejects).
Outcomes == {"ok", "neterr", "notok", "badbody"}

\* ----------------------------------------------------------------- state

VARIABLES
  imageSrc,             \* "null" | "img"
  audioSrc,             \* [kind: "none" | "rec" | "file", cap]
  isRecording,
  isLoading,
  errorMessage,         \* "null" or the message
  transcriptionData,    \* sequence of ChunkData (or Undefined holes)
  synthesizedAudioSrc,  \* "null" | "url"
  selectedAccent,
  rawText,
  mediaRecorder,        \* 0 or the capture whose recorder it is
  audioStream,          \* 0 or the capture whose stream it is
  audioChunks,          \* fragments pushed, each named by its capture
  chunkBeingRecorded,   \* 0 or the index
  caps,                 \* the captures: getUserMedia call, stream, recorder, upload
  uploads,              \* file-upload requests in flight (a bag)
  synths,               \* synthesis requests in flight (their number)
  uiMounted,            \* the component tree is rendered
  objectUrls,           \* object URLs of full audio created and not revoked
  last                  \* history: the handler that ran last, and what it saw

store == <<imageSrc, audioSrc, isRecording, isLoading, errorMessage,
           transcriptionData, synthesizedAudioSrc, selectedAccent, rawText,
           mediaRecorder, audioStream, audioChunks, chunkBeingRecorded>>

vars == <<imageSrc, audioSrc, isRecording, isLoading, errorMessage,
          transcriptionData, synthesizedAudioSrc, selectedAccent, rawText,
          mediaRecorder, audioStream, audioChunks, chunkBeingRecorded,
          caps, uploads, synths, uiMounted, objectUrls, last>>

\* --------------------------------------------------------------- helpers

\* data.chunks.map(chunk => chunk.text).join(' ')
RECURSIVE JoinText(_)
JoinText(chunks) ==
  IF chunks = <<>> THEN ""
  ELSE IF Len(chunks) = 1 THEN chunks[1].text
  ELSE chunks[1].text \o " " \o JoinText(Tail(chunks))

\* JavaScript truthiness of a string.
Truthy(s) == s # ""

Max(a, b) == IF a >= b THEN a ELSE b

\* A merge that pushes the new chunk instead of storing it at index.
MergeChunkPush(prevData, index, chunks) ==
  Append(prevData, IF chunks = <<>> THEN Undefined ELSE chunks[1])

\* const newData = [...prevData]; newData[index] = data.chunks[0];
MergeChunk(prevData, index, chunks) ==
  LET v == IF chunks = <<>> THEN Undefined ELSE chunks[1]
  IN  [j \in 1..Max(Len(prevData), index) |->
         IF j = index THEN v
         ELSE IF j <= Len(prevData) THEN prevData[j]
         ELSE Undefined]

\* A catch block that also clears the transcript.
FullUploadChunksClearedOnFailure(prevData, outcome, chunks) ==
  IF outcome = "ok" THEN chunks ELSE <<>>

\* A success path that adds the chunks of the response to those stored.
FullUploadChunksAppended(prevData, outcome, chunks) ==
  IF outcome = "ok" THEN prevData \o chunks ELSE prevData

\* An intent that leaves the chunks of the previous result in place.
IntentChunksKept(prevData) == prevData

\* this.transcriptionData = [] / this.setTranscriptionData([]): what the
\* start of a recording and the selection of a file leave of the chunks of
\* the previous result.
IntentChunks(prevData) == <<>>

\* A catch block that runs the merge as well, with no chunk to store.
ChunkUploadChunksMergedOnFailure(prevData, index, outcome, chunks) ==
  MergeChunk(prevData, index, chunks)

\* What the try/catch around the prediction request of a chunk re-record
\* leaves in transcriptionData: the merge on success, nothing written on
\* failure.
ChunkUploadChunks(prevData, index, outcome, chunks) ==
  IF outcome = "ok" THEN MergeChunk(prevData, index, chunks) ELSE prevData

\* What the try/catch around a full prediction request leaves in
\* transcriptionData: data.chunks on success, nothing written on failure.
FullUploadChunks(prevData, outcome, chunks) ==
  IF outcome = "ok" THEN chunks ELSE prevData

\* The same for rawText.
FullUploadRawText(prevText, outcome, chunks) ==
  IF outcome = "ok" THEN JoinText(chunks) ELSE prevText

\* The render of the table rows reads chunk.text and chunk.prediction of
\* every element; the rows are rendered only when not loading.
RenderOk(loading, data) ==
  loading \/ \A j \in 1..Len(data) : data[j] # Undefined

\* A capture is between its start intent and the end of its workflow.
ActiveStages == {"acquiring", "recording", "stopping", "uploading"}

\* History bookkeeping of every write to transcriptionData: an active chunk
\* re-record has seen a write since it was started.
MarkWritten(cs) ==
  [c \in DOMAIN cs |->
     IF cs[c].kind = "chunk" /\ cs[c].stage \in ActiveStages
     THEN [cs[c] EXCEPT !.written = TRUE] ELSE cs[c]]

\* The history record: the handler that ran (op), the capture and the chunk
\* index it was about, how its request ended and the chunks of the response,
\* transcriptionData before the handler ran (before) and before the intent
\* that started the operation (atIntent), whether transcriptionData was
\* written while the re-record was under way (written), whether a newer
\* recording or file upload was started while the full upload was under way
\* (stale), whether an operation
\* (busy) or a synthesis (synthBusy) was outstanding when the intent was
\* issued, whether the handler sent a request (sent), and whether it
\* created an Audio element and played it (played), and whether the stopped
\* recorder delivered a non-empty fragment (hasData).
NoLast == [op |-> "init", cap |-> 0, index |-> 0, outcome |-> "none",
           resp |-> <<>>, before |-> <<>>, atIntent |-> <<>>,
           written |-> FALSE, stale |-> FALSE, busy |-> FALSE,
           synthBusy |-> FALSE, sent |-> FALSE, played |-> FALSE,
           hasData |-> FALSE]

\* The operations outstanding: captures between their start intent and the
\* end of their workflow (device acquisition, recording, queued stop event,
\* prediction request), file uploads and syntheses in flight.
Outstanding ==
  Cardinality({c \in DOMAIN caps : caps[c].stage \in ActiveStages})
    + BagCardinality(uploads) + synths

\* A file-upload request: history keeps the transcript its intent cleared.
Upload(atIntent) == [atIntent |-> atIntent, stale |-> FALSE]

\* History bookkeeping of every start of a recording or of a file upload:
\* the full captures under way have seen a newer one start.
MarkStale(cs) ==
  [c \in DOMAIN cs |->
     IF cs[c].kind = "full" /\ cs[c].stage \in ActiveStages
     THEN [cs[c] EXCEPT !.stale = TRUE] ELSE cs[c]]

\* The same for the file uploads in flight.
MarkStaleUploads(b) ==
  LET Count(t) == IF t \in DOMAIN b THEN b[t] ELSE 0
  IN  [u \in {[t EXCEPT !.stale = TRUE] : t \in BagToSet(b)} |->
         Count(u) + Count([u EXCEPT !.stale = FALSE])]

\* ------------------------------------------------------------------ init

Init ==
  /\ imageSrc = "null"
  /\ audioSrc = [kind |-> "none", cap |-> 0]
  /\ isRecording = FALSE
  /\ isLoading = FALSE
  /\ errorMessage = "null"
  /\ transcriptionData = <<>>
  /\ synthesizedAudioSrc = "null"
  /\ selectedAccent = "british"
  /\ rawText = ""
  /\ mediaRecorder = 0
  /\ audioStream = 0
  /\ audioChunks = <<>>
  /\ chunkBeingRecorded = 0
  /\ caps = <<>>
  /\ uploads = EmptyBag
  /\ synths = 0
  /\ uiMounted = TRUE
  /\ objectUrls = 0
  /\ last = NoLast

\* -------------------------------------------------------------- captures

NewCap(kind, index, atIntent) ==
  [kind |-> kind, index |-> index, stage |-> "acquiring", live |-> FALSE,
   written |-> FALSE, stale |-> FALSE, atIntent |-> atIntent]

\* Some asynchronous operation is outstanding.
Busy == Outstanding > 0

\* this.audioStream.getTracks().forEach(track => track.stop()) on stream s
\* (0: the field is null and the branch is skipped). A recorder still
\* recording a stream whose tracks have all ended is stopped by the browser,
\* which queues its stop event.
StopTracks(cs, s) ==
  [c \in DOMAIN cs |->
     IF c # s THEN cs[c]
     ELSE [cs[c] EXCEPT !.live = FALSE,
                        !.stage = IF @ = "recording" THEN "stopping" ELSE @]]

\* URL.createObjectURL(blob): one more object URL is alive in the document.
\* The store never calls URL.revokeObjectURL.
CreateObjectURL(n) == IF n < MaxUrls THEN n + 1 ELSE n

\* An onstop handler that shows the recorded audio whatever the capture was
\* for.
RecordedAudioSrcOfAnyKind(prevSrc, kind, c) == [kind |-> "rec", cap |-> c]

\* this.setAudioSrc(audioURL) in the onstop of a full recording; the onstop
\* of a chunk re-record has no such call.
RecordedAudioSrc(prevSrc, kind, c) ==
  IF kind = "full" THEN [kind |-> "rec", cap |-> c] ELSE prevSrc

\* The end of capture c's workflow: its history fields are dropped.
Finish(cs, c) ==
  [cs EXCEPT ![c].stage = "done", ![c].written = FALSE, ![c].stale = FALSE,
             ![c].atIntent = <<>>]

\* handleStartStopRecording, else branch: handleStartRecording up to its
\* first await (getUserMedia).
HandleStartRecording ==
  /\ uiMounted
  /\ ~isRecording
  /\ Len(caps) < MaxCaps
  /\ Outstanding < MaxOps
  /\ isRecording' = TRUE
  /\ imageSrc' = "null"
  /\ errorMessage' = "null"
  /\ transcriptionData' = IntentChunks(transcriptionData)
  /\ caps' = Append(MarkStale(MarkWritten(caps)),
                    NewCap("full", 0, transcriptionData))
  /\ uploads' = MarkStaleUploads(uploads)
  /\ uiMounted' = (uiMounted /\ RenderOk(isLoading, transcriptionData'))
  /\ last' = [NoLast EXCEPT !.op = "startRecording", !.cap = Len(caps) + 1,
                            !.busy = Busy]
  /\ UNCHANGED <<audioSrc, isLoading, synthesizedAudioSrc, selectedAccent,
                 rawText, mediaRecorder, audioStream, audioChunks,
                 chunkBeingRecorded, synths,
                 objectUrls>>

\* handleStartStopRecording, then branch: handleStopRecording. stop() on a
\* recorder that is already inactive either returns or throws
\* InvalidStateError, depending on the browser; when it throws,
\* setIsRecording(false) is not reached.
HandleStopRecording ==
  /\ uiMounted
  /\ isRecording
  /\ \/ /\ mediaRecorder = 0
        /\ UNCHANGED <<isRecording, caps>>
        /\ last' = [NoLast EXCEPT !.op = "stopNoRecorder"]
     \/ /\ mediaRecorder # 0
        /\ caps[mediaRecorder].stage = "recording"
        /\ caps' = [caps EXCEPT ![mediaRecorder].stage = "stopping"]
        /\ isRecording' = FALSE
        /\ last' = [NoLast EXCEPT !.op = "stopRecording", !.cap = mediaRecorder]
     \/ /\ mediaRecorder # 0
        /\ caps[mediaRecorder].stage # "recording"
        /\ isRecording' = FALSE
        /\ UNCHANGED caps
        /\ last' = [NoLast EXCEPT !.op = "stopInactive", !.cap = mediaRecorder]
     \/ /\ mediaRecorder # 0
        /\ caps[mediaRecorder].stage # "recording"
        /\ UNCHANGED <<isRecording, caps>>
        /\ last' = [NoLast EXCEPT !.op = "stopThrows", !.cap = mediaRecorder]
  /\ UNCHANGED <<imageSrc, audioSrc, isLoading, errorMessage,
                 transcriptionData, synthesizedAudioSrc, selectedAccent,
                 rawText, mediaRecorder, audioStream, audioChunks,
                 chunkBeingRecorded, uploads, synths, uiMounted,
                 objectUrls>>

\* A handler with no test of isRecording.
ChunkCaptureNeverRefused(recording) == FALSE

\* if (this.isRecording) { return; }
ChunkCaptureRefused(recording) == recording

\* handleStartChunkRecording(index) up to its first await. The Re-record
\* button of row index is rendered with the table; it is disabled while
\* recording, and a click dispatched before that render reaches the
\* handler's own test of isRecording.
HandleStartChunkRecording(index) ==
  /\ uiMounted
  /\ ~isLoading
  /\ index \in 1..Len(transcriptionData)
  /\ IF ChunkCaptureRefused(isRecording)
     THEN /\ last' = [NoLast EXCEPT !.op = "startChunkIgnored",
                                    !.index = index]
          /\ UNCHANGED <<chunkBeingRecorded, isRecording, caps>>
     ELSE /\ Len(caps) < MaxCaps
          /\ Outstanding < MaxOps
          /\ chunkBeingRecorded' = index
          /\ isRecording' = TRUE
          /\ caps' = Append(caps, NewCap("chunk", index, <<>>))
          /\ last' = [NoLast EXCEPT !.op = "startChunk",
                                    !.cap = Len(caps) + 1,
                                    !.index = index, !.busy = Busy]
  /\ UNCHANGED <<imageSrc, audioSrc, isLoading, errorMessage,
                 transcriptionData, synthesizedAudioSrc, selectedAccent,
                 rawText, mediaRecorder, audioStream, audioChunks, uploads,
                 synths, uiMounted,
                 objectUrls>>

\* getUserMedia of capture c resolves: the rest of handleStartRecording or
\* handleStartChunkRecording, to mediaRecorder.start().
AcquireResolved(c) ==
  /\ caps[c].stage = "acquiring"
  /\ audioStream' = c
  /\ audioChunks' = <<>>
  /\ mediaRecorder' = c
  /\ caps' = [caps EXCEPT ![c].stage = "recording", ![c].live = TRUE]
  /\ last' = [NoLast EXCEPT !.op = "acquired", !.cap = c]
  /\ UNCHANGED <<imageSrc, audioSrc, isRecording, isLoading, errorMessage,
                 transcriptionData, synthesizedAudioSrc, selectedAccent,
                 rawText, chunkBeingRecorded, uploads, synths, uiMounted,
                 objectUrls>>

\* getUserMedia of capture c rejects: the outer catch block.
AcquireRejected(c) ==
  /\ caps[c].stage = "acquiring"
  /\ isRecording' = FALSE
  /\ caps' = Finish(caps, c)
  /\ last' = [NoLast EXCEPT !.op = "denied", !.cap = c,
                            !.atIntent = caps[c].atIntent]
  /\ UNCHANGED <<imageSrc, audioSrc, isLoading, errorMessage,
                 transcriptionData, synthesizedAudioSrc, selectedAccent,
                 rawText, mediaRecorder, audioStream, audioChunks,
                 chunkBeingRecorded, uploads, synths, uiMounted,
                 objectUrls>>

\* The task queued by the stop of recorder c: ondataavailable with the data
\* gathered (pushed when its size is not 0), then onstop up to its first
\* await: the blob of this.audioChunks, the empty-blob return, and the
\* prediction request.
RecorderStopped(c, hasData) ==
  /\ caps[c].stage = "stopping"
  /\ LET chunks == IF hasData THEN Append(audioChunks, c) ELSE audioChunks
     IN  /\ audioChunks' = chunks
         /\ IF chunks = <<>>
            THEN /\ caps' = Finish(caps, c)
                 /\ UNCHANGED <<audioSrc, isLoading, objectUrls>>
            ELSE /\ caps' = [caps EXCEPT ![c].stage = "uploading"]
                 /\ isLoading' = TRUE
                 /\ audioSrc' = RecordedAudioSrc(audioSrc, caps[c].kind, c)
                 /\ objectUrls' = IF caps[c].kind = "full"
                                  THEN CreateObjectURL(objectUrls)
                                  ELSE objectUrls
         /\ last' = [NoLast EXCEPT !.op = "recorderStopped", !.cap = c,
                                   !.before = transcriptionData,
                                   !.sent = (chunks # <<>>),
                                   !.hasData = hasData]
  /\ uiMounted' = (uiMounted /\ RenderOk(isLoading', transcriptionData))
  /\ UNCHANGED <<imageSrc, isRecording, errorMessage, transcriptionData,
                 synthesizedAudioSrc, selectedAccent, rawText, mediaRecorder,
                 audioStream, chunkBeingRecorded, uploads, synths>>

\* --------------------------------------------------- prediction responses

\* The chunks a response carries: only a successful one carries any.
RespsOf(outcome) == IF outcome = "ok" THEN Resps ELSE {<<>>}

\* The finally block of both recorder onstop handlers: the stream that the
\* shared field names is stopped and the field is cleared.
ReleaseStream(cs) == IF audioStream # 0 THEN StopTracks(cs, audioStream) ELSE cs

\* The prediction request of recording c completes: the try, catch and
\* finally blocks of handleStartRecording's onstop.
RecordingUploadDone(c, outcome, chunks) ==
  /\ caps[c].stage = "uploading"
  /\ caps[c].kind = "full"
  /\ imageSrc' = IF outcome = "ok" THEN "img" ELSE imageSrc
  /\ transcriptionData' = FullUploadChunks(transcriptionData, outcome, chunks)
  /\ rawText' = FullUploadRawText(rawText, outcome, chunks)
  /\ errorMessage' = IF outcome = "ok" THEN errorMessage
                     ELSE "Error uploading audio"
  /\ isLoading' = FALSE
  /\ audioStream' = 0
  /\ caps' = LET done == Finish(ReleaseStream(caps), c)
             IN  IF outcome = "ok" THEN MarkWritten(done) ELSE done
  /\ uiMounted' = (uiMounted /\ RenderOk(isLoading', transcriptionData'))
  /\ last' = [NoLast EXCEPT !.op = "recordingUploadDone", !.cap = c,
                            !.outcome = outcome, !.resp = chunks,
                            !.before = transcriptionData,
                            !.atIntent = caps[c].atIntent,
                            !.stale = caps[c].stale]
  /\ UNCHANGED <<audioSrc, isRecording, synthesizedAudioSrc, selectedAccent,
                 mediaRecorder, audioChunks, chunkBeingRecorded, uploads, synths,
                 objectUrls>>

\* The prediction request of chunk re-record c completes: the try, catch and
\* finally blocks of handleStartChunkRecording's onstop.
ChunkUploadDone(c, outcome, chunks) ==
  /\ caps[c].stage = "uploading"
  /\ caps[c].kind = "chunk"
  /\ transcriptionData' =
       ChunkUploadChunks(transcriptionData, caps[c].index, outcome, chunks)
  /\ errorMessage' = IF outcome = "ok" THEN errorMessage
                     ELSE "Error uploading audio"
  /\ isLoading' = FALSE
  /\ audioStream' = 0
  /\ chunkBeingRecorded' = 0
  /\ isRecording' = FALSE
  /\ caps' = LET done == Finish(ReleaseStream(caps), c)
             IN  IF outcome = "ok" THEN MarkWritten(done) ELSE done
  /\ uiMounted' = (uiMounted /\ RenderOk(isLoading', transcriptionData'))
  /\ last' = [NoLast EXCEPT !.op = "chunkUploadDone", !.cap = c,
                            !.index = caps[c].index,
                            !.outcome = outcome, !.resp = chunks,
                            !.before = transcriptionData,
                            !.written = caps[c].written]
  /\ UNCHANGED <<imageSrc, audioSrc, synthesizedAudioSrc, selectedAccent,
                 rawText, mediaRecorder, audioChunks, uploads, synths,
                 objectUrls>>

\* ------------------------------------------------------------ file upload

\* handleFileUpload(file) up to its await: the file input is always
\* rendered.
HandleFileUpload ==
  /\ uiMounted
  /\ Outstanding < MaxOps
  /\ imageSrc' = "null"
  /\ errorMessage' = "null"
  /\ transcriptionData' = IntentChunks(transcriptionData)
  /\ audioSrc' = [kind |-> "file", cap |-> 0]
  /\ objectUrls' = CreateObjectURL(objectUrls)
  /\ isLoading' = TRUE
  /\ uploads' = MarkStaleUploads(uploads)
                  (+) SetToBag({Upload(transcriptionData)})
  /\ caps' = MarkStale(MarkWritten(caps))
  /\ uiMounted' = (uiMounted /\ RenderOk(isLoading', transcriptionData'))
  /\ last' = [NoLast EXCEPT !.op = "fileUpload", !.busy = Busy]
  /\ UNCHANGED <<isRecording, synthesizedAudioSrc, selectedAccent, rawText,
                 mediaRecorder, audioStream, audioChunks, chunkBeingRecorded,
                 synths>>

\* The prediction request t of a file upload completes: the try, catch and
\* finally blocks of handleFileUpload.
FileUploadDone(t, outcome, chunks) ==
  /\ BagIn(t, uploads)
  /\ imageSrc' = IF outcome = "ok" THEN "img" ELSE imageSrc
  /\ transcriptionData' = FullUploadChunks(transcriptionData, outcome, chunks)
  /\ rawText' = FullUploadRawText(rawText, outcome, chunks)
  /\ errorMessage' = IF outcome = "ok" THEN errorMessage
                     ELSE "Error uploading file"
  /\ isLoading' = FALSE
  /\ uploads' = uploads (-) SetToBag({t})
  /\ caps' = IF outcome = "ok" THEN MarkWritten(caps) ELSE caps
  /\ uiMounted' = (uiMounted /\ RenderOk(isLoading', transcriptionData'))
  /\ last' = [NoLast EXCEPT !.op = "fileUploadDone",
                            !.outcome = outcome, !.resp = chunks,
                            !.before = transcriptionData,
                            !.atIntent = t.atIntent,
                            !.stale = t.stale]
  /\ UNCHANGED <<audioSrc, isRecording, synthesizedAudioSrc, selectedAccent,
                 mediaRecorder, audioStream, audioChunks, chunkBeingRecorded,
                 synths,
                 objectUrls>>

\* -------------------------------------------------------------- synthesis

\* A synthesis request is in flight.
Synthesizing == synths > 0

\* handleSynthesize up to its await: the Synthesize button is rendered when
\* not loading.
HandleSynthesize ==
  /\ uiMounted
  /\ ~isLoading
  /\ IF ~Truthy(rawText) \/ ~Truthy(selectedAccent)
     THEN /\ errorMessage' = "Text or accent is missing."
          /\ UNCHANGED <<isLoading, synthesizedAudioSrc, synths>>
          /\ last' = [NoLast EXCEPT !.op = "synthesize",
                                    !.before = transcriptionData,
                                    !.busy = Busy,
                                    !.synthBusy = Synthesizing]
     ELSE /\ Outstanding < MaxOps
          /\ isLoading' = TRUE
          /\ errorMessage' = "null"
          /\ synthesizedAudioSrc' = "null"
          /\ synths' = synths + 1
          /\ last' = [NoLast EXCEPT !.op = "synthesize", !.sent = TRUE,
                                    !.before = transcriptionData,
                                    !.busy = Busy,
                                    !.synthBusy = Synthesizing]
  /\ UNCHANGED <<imageSrc, audioSrc, isRecording, transcriptionData,
                 selectedAccent, rawText, mediaRecorder, audioStream,
                 audioChunks, chunkBeingRecorded, caps, uploads, uiMounted,
                 objectUrls>>

\* A synthesis request completes: the try, catch and finally blocks of
\* handleSynthesize.
SynthesizeDone(outcome) ==
  /\ synths > 0
  /\ synthesizedAudioSrc' = IF outcome = "ok" THEN "url"
                            ELSE synthesizedAudioSrc
  /\ errorMessage' = IF outcome = "ok" THEN errorMessage
                     ELSE "Error synthesizing audio"
  /\ isLoading' = FALSE
  /\ synths' = synths - 1
  /\ uiMounted' = (uiMounted /\ RenderOk(isLoading', transcriptionData))
  /\ last' = [NoLast EXCEPT !.op = "synthesizeDone", !.outcome = outcome]
  /\ UNCHANGED <<imageSrc, audioSrc, isRecording, transcriptionData,
                 selectedAccent, rawText, mediaRecorder, audioStream,
                 audioChunks, chunkBeingRecorded, caps, uploads,
                 objectUrls>>

\* A handler that plays whatever this.audioSrc holds.
PlaysAudioAlways(src) == TRUE

\* if (this.audioSrc): the truthiness of the field.
PlaysAudio(src) == src.kind # "none"

\* handlePlayChunk(chunk.start, chunk.end) of row index: when this.audioSrc
\* is set, an Audio element of its own plays it from start and pauses
\* itself at end; no field of the store is written.
HandlePlayChunk(index) ==
  /\ uiMounted
  /\ ~isLoading
  /\ index \in 1..Len(transcriptionData)
  /\ last' = [NoLast EXCEPT !.op = "playChunk", !.index = index,
                            !.played = PlaysAudio(audioSrc)]
  /\ UNCHANGED <<store, caps, uploads, synths, uiMounted,
                 objectUrls>>

\* ---------------------------------------------------------- specification

Next ==
  \/ HandleStartRecording
  \/ HandleStopRecording
  \/ \E index \in 1..Len(transcriptionData) : HandleStartChunkRecording(index)
  \/ \E c \in DOMAIN caps : AcquireResolved(c)
  \/ \E c \in DOMAIN caps : AcquireRejected(c)
  \/ \E c \in DOMAIN caps : \E hasData \in BOOLEAN : RecorderStopped(c, hasData)
  \/ \E c \in DOMAIN caps : \E outcome \in Outcomes :
       \E chunks \in RespsOf(outcome) : RecordingUploadDone(c, outcome, chunks)
  \/ \E c \in DOMAIN caps : \E outcome \in Outcomes :
       \E chunks \in RespsOf(outcome) : ChunkUploadDone(c, outcome, chunks)
  \/ HandleFileUpload
  \/ \E t \in BagToSet(uploads) : \E outcome \in Outcomes :
       \E chunks \in RespsOf(outcome) : FileUploadDone(t, outcome, chunks)
  \/ HandleSynthesize
  \/ \E outcome \in Outcomes : SynthesizeDone(outcome)
  \/ \E index \in 1..Len(transcriptionData) : HandlePlayChunk(index)

Spec == Init /\ [][Next]_vars

TypeOK ==
  /\ imageSrc \in {"null", "img"}
  /\ selectedAccent \in Accents
  /\ isRecording \in BOOLEAN
  /\ isLoading \in BOOLEAN
  /\ mediaRecorder \in 0..Len(caps)
  /\ audioStream \in 0..Len(caps)
  /\ chunkBeingRecorded \in Nat
  /\ Len(caps) <= MaxCaps
  /\ Outstanding <= MaxOps
  /\ objectUrls \in 0..MaxUrls

\* handlePlayChunk applied to any store: the fields it may find are drawn
\* from bounded sets, whether or not the handlers above can produce the
\* combination (they set audioSrc before any row exists).
PlayInit ==
  /\ imageSrc \in {"null", "img"}
  /\ audioSrc \in {[kind |-> "none", cap |-> 0], [kind |-> "file", cap |-> 0],
                    [kind |-> "rec", cap |-> 1]}
  /\ isRecording \in BOOLEAN
  /\ isLoading = FALSE
  /\ errorMessage \in {"null", "Error uploading audio"}
  /\ transcriptionData \in Resps \ {<<>>}
  /\ synthesizedAudioSrc \in {"null", "url"}
  /\ selectedAccent \in Accents
  /\ rawText = JoinText(transcriptionData)
  /\ mediaRecorder = 0
  /\ audioStream = 0
  /\ audioChunks = <<>>
  /\ chunkBeingRecorded \in 0..Len(transcriptionData)
  /\ caps = <<>>
  /\ uploads = EmptyBag
  /\ synths = 0
  /\ uiMounted = TRUE
  /\ objectUrls = 0
  /\ last = NoLast

PlayNext == \E index \in 1..Len(transcriptionData) : HandlePlayChunk(index)

PlaySpec == PlayInit /\ [][PlayNext]_vars

\* ------------------------------------------------------------------ claims

\* The intents that start an asynchronous operation.
StartIntents == {"startRecording", "startChunk", "fileUpload", "synthesize"}

\* A full upload (of a stopped recording or of a selected file) has just
\* completed.
FullUploadDone == last.op \in {"recordingUploadDone", "fileUploadDone"}

\* C1: at most one asynchronous mutating operation is outstanding, and an
\* intent issued while one is outstanding starts nothing.
C1_AtMostOneOutstanding ==
  /\ Outstanding <= 1
  /\ (last.op \in StartIntents /\ last.busy) =>
       (~last.sent /\ errorMessage = "OperationInProgress")

\* C2: a chunk re-record whose prediction response arrives after the chunk
\* sequence was written since startChunkCapture(i) leaves the chunk sequence
\* exactly as it was just before the response arrived.
C2_StaleMergeRejected ==
  (last.op = "chunkUploadDone" /\ last.outcome = "ok" /\ last.written) =>
    transcriptionData = last.before

\* C3: a successful chunk re-record of index i, with no other write to the
\* chunk sequence since startChunkCapture(i), keeps the length of the
\* sequence and every chunk at an index other than i, and stores the first
\* chunk of the response at i.
C3_ReRecordReplacesOnlyIndex ==
  (last.op = "chunkUploadDone" /\ last.outcome = "ok" /\ ~last.written) =>
    /\ last.index \in 1..Len(last.before)
    /\ Len(transcriptionData) = Len(last.before)
    /\ \A j \in 1..Len(last.before) :
         j # last.index => transcriptionData[j] = last.before[j]
    /\ last.resp # <<>> => transcriptionData[last.index] = last.resp[1]

\* C3, its case: a re-record of a row of a two-chunk transcript has replaced
\* that row by a different chunk.
C3_Witness ==
  /\ last.op = "chunkUploadDone" /\ last.outcome = "ok" /\ ~last.written
  /\ Len(last.before) = 2
  /\ last.resp # <<>>
  /\ transcriptionData # last.before

\* C4 as claimed: a failed full upload leaves the chunk sequence equal to
\* what it was before the capture or upload intent was issued.
C4_FailedUploadRestoresIntentChunks ==
  (FullUploadDone /\ last.outcome # "ok") =>
    transcriptionData = last.atIntent

\* C4 as amended: a failed full upload leaves the chunk sequence exactly as
\* it was just before the failure arrived (the intent has already cleared
\* what was there before it).
C4_FailedUploadWritesNoChunks ==
  (FullUploadDone /\ last.outcome # "ok") =>
    transcriptionData = last.before

\* C4, its case: an upload has failed while the store held chunks (those of
\* an overlapping upload that succeeded first).
C4_Witness ==
  /\ FullUploadDone /\ last.outcome # "ok"
  /\ last.before # <<>>

\* C5: after a successful full upload the chunk sequence is exactly the
\* chunk sequence of the response, in the very state the handler leaves.
C5_UploadReplacesAllChunks ==
  (FullUploadDone /\ last.outcome = "ok") =>
    transcriptionData = last.resp

\* C5, its case: a successful upload has replaced a non-empty sequence by a
\* different non-empty one.
C5_Witness ==
  /\ FullUploadDone /\ last.outcome = "ok"
  /\ last.before # <<>>
  /\ last.resp # <<>>
  /\ last.resp # last.before

\* C6: a capture whose workflow has ended, on whichever exit path, holds no
\* live device stream.
C6_EndedCaptureReleased ==
  \A c \in DOMAIN caps : caps[c].stage = "done" => ~caps[c].live

\* C7: when the upload of a stopped recording completes, by success or by
\* failure, the stream that recording acquired has been released.
C7_RecordingStreamReleased ==
  last.op = "recordingUploadDone" => ~caps[last.cap].live

\* C8: the stop of a recording that captured no fragment records an error,
\* leaves the session idle and sends no prediction request.
C8_EmptyRecordingReported ==
  (last.op = "recorderStopped" /\ caps[last.cap].kind = "full"
     /\ audioChunks = <<>>) =>
    /\ errorMessage # "null"
    /\ ~last.sent
    /\ ~isRecording

\* C9: a synthesis intent issued while the space-joined text of the chunks
\* in the store is empty sends no request and reports the missing input.
C9_EmptyTranscriptNotSynthesized ==
  (last.op = "synthesize" /\ JoinText(last.before) = "") =>
    /\ ~last.sent
    /\ errorMessage = "Text or accent is missing."

\* C10: a synthesis intent issued while a synthesis request is in flight
\* sends no second request.
C10_NoSecondSynthesis ==
  (last.op = "synthesize" /\ last.synthBusy) => ~last.sent

\* The captures in progress: the device is being acquired, the recorder is
\* recording, or its stop event is queued.
CapturesInProgress ==
  {c \in DOMAIN caps : caps[c].stage \in {"acquiring", "recording", "stopping"}}

\* The device streams whose tracks have not been stopped.
LiveStreams == {c \in DOMAIN caps : caps[c].live}

\* C11: in every reachable state at most one capture is in progress and at
\* most one device stream is live.
C11_OneCaptureOneStream ==
  /\ Cardinality(CapturesInProgress) <= 1
  /\ Cardinality(LiveStreams) <= 1

\* A per-chunk re-record is in progress: a chunk capture between its start
\* intent and the end of its workflow.
ReRecordInProgress ==
  \E c \in DOMAIN caps :
    caps[c].kind = "chunk" /\ caps[c].stage \in ActiveStages

\* C12: chunkBeingRecorded is non-null only while a per-chunk re-record is
\* in progress, whichever way the re-record ended.
C12_ActiveChunkOnlyDuringReRecord ==
  chunkBeingRecorded # 0 => ReRecordInProgress

\* The stable phases (Idle, Reviewing): not recording, not loading, no
\* active chunk index.
Stable == ~isRecording /\ ~isLoading /\ chunkBeingRecorded = 0

\* C13, in its finite-run form: once every device acquisition and network
\* call has completed and every started capture has been stopped and
\* finalized (nothing is outstanding), the session is in a stable phase.
C13_QuiescentIsStable ==
  Outstanding = 0 => Stable

\* C14: when the device acquisition of startCapture() fails, the session is
\* back in the state it had before the call (not recording, the chunk
\* sequence it had) and an error is recorded.
C14_DeniedCaptureRestoresAndReports ==
  (last.op = "denied" /\ caps[last.cap].kind = "full") =>
    /\ ~isRecording
    /\ transcriptionData = last.atIntent
    /\ errorMessage # "null"

\* C15: when the prediction request of a chunk re-record fails, the session
\* is back in a stable phase, the whole chunk sequence is as it was before
\* the failure arrived, and the failure is recorded in errorMessage.
C15_FailedReRecordKeepsChunks ==
  (last.op = "chunkUploadDone" /\ last.outcome # "ok") =>
    /\ Stable
    /\ transcriptionData = last.before
    /\ errorMessage = "Error uploading audio"

\* C15, its case: the prediction request of a re-record of a row of a
\* two-chunk transcript has failed.
C15_Witness ==
  /\ last.op = "chunkUploadDone" /\ last.outcome # "ok"
  /\ Len(last.before) = 2
  /\ last.index \in 1..2

\* C16: the stop of a chunk re-record that captured no fragment records an
\* error, returns the session to a stable phase, sends no prediction request
\* and leaves the chunk sequence as it was.
C16_EmptyReRecordReported ==
  (last.op = "recorderStopped" /\ caps[last.cap].kind = "chunk"
     /\ audioChunks = <<>>) =>
    /\ errorMessage # "null"
    /\ Stable
    /\ ~last.sent
    /\ transcriptionData = last.before

\* C17: the response of a full upload that saw a newer recording or file
\* upload start since it began is not applied: it leaves the chunk sequence
\* as it was just before the response arrived.
C17_StaleUploadNotApplied ==
  (FullUploadDone /\ last.outcome = "ok" /\ last.stale) =>
    transcriptionData = last.before

\* A handler has just installed the audio of a finalized recording or of a
\* selected file, before sending its prediction request.
AudioInstalled ==
  \/ last.op = "fileUpload"
  \/ last.op = "recorderStopped" /\ last.sent /\ caps[last.cap].kind = "full"

\* C18 as claimed: audioSrc changes only in the step in which a full upload
\* succeeds.
C18_AudioSrcChangesOnlyOnSuccess ==
  [][audioSrc' # audioSrc => (FullUploadDone /\ last.outcome = "ok")']_vars

\* C18 as amended: audioSrc changes only in the step that finalizes a full
\* recording to a non-empty blob or takes a selected file, before the
\* request is sent; the completion of an upload, an empty recording and a
\* chunk re-record leave it as it was.
C18_AudioSrcChangesOnlyWhenInstalled ==
  [][audioSrc' # audioSrc => AudioInstalled']_vars

\* C18, its case: the upload of a recording has failed and audioSrc refers
\* to the audio of that recording.
C18_Witness ==
  /\ last.op = "recordingUploadDone" /\ last.outcome # "ok"
  /\ audioSrc = [kind |-> "rec", cap |-> last.cap]

\* C19: at most one object URL of full audio is created and not revoked.
C19_AtMostOneUnreleasedHandle ==
  objectUrls <= 1

C21_PlayChunkReadOnly ==
  [][last'.op = "playChunk" =>
       (store' = store /\ (last'.played <=> audioSrc.kind # "none"))]_vars

\* C21, its case: handlePlayChunk has run in a store whose audioSrc is not
\* set, with a recording flagged and an active chunk index.
C21_Witness ==
  /\ last.op = "playChunk" /\ ~last.played
  /\ audioSrc.kind = "none"
  /\ isRecording /\ chunkBeingRecorded # 0

\* C22: the blob finalized at the stop of a capture (new Blob of
\* this.audioChunks) holds exactly the non-empty fragments that capture
\* delivered since its start: no fragment of another capture, and none of
\* its own missing.
C22_BlobIsOwnFragments ==
  last.op = "recorderStopped" =>
    audioChunks = (IF last.hasData THEN <<last.cap>> ELSE <<>>)

\* C23: a startChunkCapture(index) issued while isRecording is true changes
\* no field of the store and starts no device acquisition or request.
C23_ChunkCaptureWhileRecordingIsNoOp ==
  [][(last'.op \in {"startChunk", "startChunkIgnored"} /\ isRecording) =>
       UNCHANGED <<store, caps, uploads, synths>>]_vars

\* C23, its case: while the re-record of one row is in progress, the
\* re-record of another row has been asked for and refused.
C23_Witness ==
  /\ last.op = "startChunkIgnored"
  /\ isRecording
  /\ chunkBeingRecorded # 0
  /\ last.index # chunkBeingRecorded

\* The prediction request of a capture (full or chunk) has just completed.
CaptureUploadDone == last.op \in {"recordingUploadDone", "chunkUploadDone"}

\* C24: the completion of the upload of a capture releases the device
\* stream of that capture and of no other: the stream of every other
\* capture is as live as it was.
C24_UploadReleasesOwnStreamOnly ==
  [][CaptureUploadDone' =>
       /\ ~caps'[last'.cap].live
       /\ \A c \in DOMAIN caps :
            c # last'.cap => caps'[c].live = caps[c].live]_vars

\* C25: whenever a recorder is recording, isRecording is true, so that a
\* stop intent reaches it.
C25_RecordingFlagCoversRecorder ==
  \A c \in DOMAIN caps : caps[c].stage = "recording" => isRecording

\* The prediction and synthesis requests in flight.
RequestsInFlight ==
  Cardinality({c \in DOMAIN caps : caps[c].stage = "uploading"})
    + BagCardinality(uploads) + synths

\* C26: isLoading is true exactly when a prediction or synthesis request is
\* in flight.
C26_LoadingIffRequestInFlight ==
  isLoading <=> RequestsInFlight > 0

\* C27: the text a synthesis request sends (rawText) is the space-joined
\* text of the chunks in the store when the request is sent.
C27_SynthesizedTextIsTranscript ==
  (last.op = "synthesize" /\ last.sent) => rawText = JoinText(last.before)

\* C28: the chunk sequence never holds a missing (undefined) element, and a
\* chunk re-record never changes its length.
C28_ChunksDense ==
  /\ \A j \in 1..Len(transcriptionData) : transcriptionData[j] # Undefined
  /\ last.op = "chunkUploadDone" =>
       Len(transcriptionData) = Len(last.before)

====
